---- MODULE Spec2Model ----
(***************************************************************************)
(* A model of pypb/dist.py: the MW4S pattern (multiple workers, single     *)
(* source, single sink) over ZeroMQ REQ/REP sockets.                       *)
(*                                                                         *)
(* A REP socket is modelled by the queue of requests waiting at it (in     *)
(* arrival order) and a REQ socket by the reply travelling back to it.  A  *)
(* REQ socket has at most one request outstanding: its owner blocks in     *)
(* recv_pyobj() until the reply has come.  Objects travel pickled          *)
(* (send_pyobj / recv_pyobj).  recv_pyobj on a REP socket delivers the     *)
(* request at the head of the queue, except in SpecFair, where it delivers *)
(* any of the waiting requests.                                            *)
(***************************************************************************)
EXTENDS Integers, Sequences, FiniteSets, TLC

(* ------------------------------ bounds -------------------------------- *)
\* number of Worker objects that may be constructed
NumWorkers == 2
\* number of Source.send(task) calls the producer may make
MaxTasks == 2
\* number of Worker.send(result) calls over all workers
MaxResults == 2
\* number of requests the raw REQ peer may send
MaxRaw == 4
\* number of plain requests a foreign REP peer at the source address answers
MaxForeign == 2

Workers == 1..NumWorkers
\* the Source's REQ socket (Source.tsock) as a client of the Sink
SRC == 0
\* a REQ socket connected by something other than a Worker object
RAW == -1
Clients == Workers \cup {SRC, RAW}
\* the Sink, where calls are counted
SNK == -2

(* ------------------------------ objects ------------------------------- *)
Obj(c, v) == [cls |-> c, val |-> v]
None == Obj("NoneType", 0)
WorkerJoinMessage == Obj("WorkerJoinMessage", 0)
WorkerExitedMessage == Obj("WorkerExitedMessage", 0)
NoMoreJobsMessage == Obj("NoMoreJobsMessage", 0)
SourceExitedMessage == Obj("SourceExitedMessage", 0)
isinstance(o, c) == o.cls = c.cls

\* what an application hands to Source.send / Worker.send
AppPayloads == {Obj("str", 1)}
\* ... and what the API accepts: any picklable object
MessagePayloads ==
    {WorkerJoinMessage, WorkerExitedMessage, NoMoreJobsMessage, SourceExitedMessage}
AnyPayloads == AppPayloads \cup {None} \cup MessagePayloads
\* the tasks and the results drawn from them where any object may be sent
TaskPayloads == {Obj("str", 1), NoMoreJobsMessage}
ResultPayloads == {Obj("str", 1), WorkerExitedMessage}

\* send_pyobj pickles the object, recv_pyobj unpickles the bytes
dumps(o) == <<o.cls, o.val>>
loads(b) == [cls |-> b[1], val |-> b[2]]
\* no reply has come
NoMsg == <<>>

VARIABLES
    source,     \* Source: nworkers, closed, and whether ssock has received
                \* a request it has not replied to
    sink,       \* Sink: nworkers, source_closed, closed
    worker,     \* Worker objects: closed, and the argument of the send in progress
    spc,        \* where the producer is in Source's methods
    tpc,        \* where the consumer is in Sink's methods
    wpc,        \* where each worker is in Worker's methods
    task,       \* the argument of the Source.send in progress
    ssock_q,    \* requests waiting at Source.ssock
    ssock_r,    \* replies of Source.ssock on their way to the REQ sockets
    tsock_q,    \* requests waiting at Sink.tsock
    tsock_r,    \* replies of Sink.tsock on their way to the REQ sockets
    calls,      \* history: number of calls made (send, raw requests, plain
                \* requests answered by a foreign peer), and the objects on
                \* which close() was called again
    hist        \* history: what was sent, received, counted

vars == <<source, sink, worker, spc, tpc, wpc, task,
          ssock_q, ssock_r, tsock_q, tsock_r, calls, hist>>

Min(a, b) == IF a < b THEN a ELSE b
Zero(S) == [x \in S |-> 0]
Bump(f, x) == [f EXCEPT ![x] = @ + 1]

\* the joins and exits an endpoint has processed: their numbers, the lowest
\* value of (joins - exits) over the prefixes, the lowest count the endpoint held
CountHist == [join |-> 0, exit |-> 0, minbal |-> 0, low |-> 0]
Counted(h, msg, n) ==
    IF isinstance(msg, WorkerJoinMessage)
    THEN [h EXCEPT !.join = @ + 1, !.low = Min(@, n)]
    ELSE IF isinstance(msg, WorkerExitedMessage)
    THEN [h EXCEPT !.exit = @ + 1,
                   !.minbal = Min(@, h.join - (h.exit + 1)),
                   !.low = Min(@, n)]
    ELSE h

\* the objects as their constructors leave them, the sockets empty
Fresh ==
    /\ source = [nworkers |-> 0, closed |-> FALSE, unanswered |-> FALSE]
    /\ sink = [nworkers |-> 0, source_closed |-> FALSE, closed |-> FALSE]
    /\ worker = [w \in Workers |-> [closed |-> FALSE, result |-> None]]
    /\ wpc = [w \in Workers |-> "new"]
    /\ task = None
    /\ ssock_q = <<>>
    /\ ssock_r = [c \in Clients |-> NoMsg]
    /\ tsock_q = <<>>
    /\ tsock_r = [c \in Clients |-> NoMsg]
    /\ calls = [send |-> 0, result |-> 0, raw |-> 0, foreign |-> 0,
                reclosed |-> {}]
    /\ hist = [sent |-> Zero(AnyPayloads), got |-> Zero(AnyPayloads),
               submitted |-> Zero(AnyPayloads), acked |-> Zero(AnyPayloads),
               yielded |-> Zero(AnyPayloads),
               scount |-> CountHist, tcount |-> CountHist,
               sjoined |-> {}, sexited |-> {},
               tjoined |-> {}, texited |-> {}, late |-> {},
               raisedat |-> [w \in Workers |-> "nowhere"],
               srcexit |-> 0, sexit |-> Zero(Workers), texit |-> Zero(Workers)]

\* ... a Source bound at the source address
Constructed == Fresh /\ spc = "idle"

Init == Constructed /\ tpc = "idle"

Request(c, o) == [from |-> c, data |-> dumps(o)]
\* a socket that leaves the request it has delivered in the queue
RemoveNothing(q, i) == q

\* the queue q once its i-th request has been received
Remove(q, i) == SubSeq(q, 1, i - 1) \o SubSeq(q, i + 1, Len(q))
Reply(r, c, o) == [r EXCEPT ![c] = dumps(o)]
Taken(r, c) == [r EXCEPT ![c] = NoMsg]

(* ------------------------------ Source -------------------------------- *)
\* a Source.send that acknowledges WorkerExited without counting it
SourceSendCountNoExit(n, req) ==
    IF isinstance(req, WorkerJoinMessage) THEN n + 1 ELSE n

\* dist.py:103-110, the worker count after a request in Source.send
SourceSendCount(n, req) ==
    IF isinstance(req, WorkerJoinMessage) THEN n + 1
    ELSE IF isinstance(req, WorkerExitedMessage) THEN n - 1
    ELSE n

\* dist.py:129-136, the worker count after a request in Source.close
SourceCloseCount(n, req) ==
    IF isinstance(req, WorkerJoinMessage) THEN n + 1
    ELSE IF isinstance(req, WorkerExitedMessage) THEN n - 1
    ELSE n

\* a Source.send that acknowledges the plain request instead of answering it
SourceSendReplyAck(t) == None

\* dist.py:100-101, what Source.send replies to a plain request
SourceSendReply(t) == t

\* a Source.close that goes on handing out the last task
SourceCloseReplyTask(t) == t

\* dist.py:126-127, what Source.close replies to a plain request
SourceCloseReply(t) == NoMoreJobsMessage

\* a Source.close that stops serving while one worker is still registered
SourceWaitingOffByOne(s) == s.nworkers > 1

\* a Source.close that goes on serving at a count of 0
SourceWaitingForever(s) == s.nworkers >= 0

\* dist.py:123, Source.close keeps serving
SourceWaiting(s) == s.nworkers > 0

\* dist.py:119, Source.close has run before
SourceIsClosed(s) == s.closed

\* the producer calls Source.send(t); it calls send before close, never after
SourceSendCall(t) ==
    /\ spc = "idle"
    /\ ~source.closed
    /\ calls.send < MaxTasks
    /\ spc' = "send"
    /\ task' = t
    /\ calls' = [calls EXCEPT !.send = @ + 1]
    /\ UNCHANGED <<source, sink, worker, tpc, wpc,
                   ssock_q, ssock_r, tsock_q, tsock_r, hist>>

\* a Source that acknowledges every instance of Message
SourceControlAnyMessage(req) == req \in MessagePayloads

\* dist.py:103-110, 129-136: the requests Source acknowledges and counts
SourceControl(req) ==
    \/ isinstance(req, WorkerJoinMessage)
    \/ isinstance(req, WorkerExitedMessage)

\* the joins and exits the Source has processed, and from whom
SourceCounted(h, req, c, n) ==
    [h EXCEPT !.scount = Counted(@, req, n),
              !.sjoined = IF isinstance(req, WorkerJoinMessage)
                          THEN @ \cup {c} ELSE @,
              !.sexited = IF isinstance(req, WorkerExitedMessage)
                          THEN @ \cup {c} ELSE @]

\* one turn of the loop of Source.send, recv_pyobj delivering the i-th of the
\* waiting requests: the receive, then the reply
SourceSendServe(i) ==
    /\ spc = "send"
    /\ ~source.unanswered
    /\ i \in 1..Len(ssock_q)
    /\ LET m == ssock_q[i]
           req == loads(m.data)
       IN  /\ ssock_q' = Remove(ssock_q, i)
           /\ IF req = None
              THEN /\ ssock_r' = Reply(ssock_r, m.from, SourceSendReply(task))
                   /\ spc' = "idle"
                   /\ task' = None
                   /\ hist' = [hist EXCEPT !.sent = Bump(@, task)]
                   /\ UNCHANGED source
              ELSE IF SourceControl(req)
              THEN /\ ssock_r' = Reply(ssock_r, m.from, None)
                   /\ source' = [source EXCEPT
                                   !.nworkers = SourceSendCount(@, req)]
                   /\ hist' = SourceCounted(hist, req, m.from, source'.nworkers)
                   /\ UNCHANGED <<spc, task>>
              ELSE \* raise Error("Invalid request"): the request stays unanswered
                   /\ spc' = "raised"
                   /\ task' = None
                   /\ source' = [source EXCEPT !.unanswered = TRUE]
                   /\ UNCHANGED <<ssock_r, hist>>
    /\ UNCHANGED <<sink, worker, tpc, wpc, tsock_q, tsock_r, calls>>

\* ... the requests delivered in the order of their arrival
SourceSendRecv == SourceSendServe(1)

\* the producer calls Source.close()
SourceCloseCall ==
    /\ spc = "idle"
    /\ IF SourceIsClosed(source)
       THEN /\ calls' = [calls EXCEPT !.reclosed = @ \cup {SRC}]
            /\ UNCHANGED <<source, spc>>
       ELSE /\ source' = [source EXCEPT !.closed = TRUE]
            /\ spc' = "close"
            /\ UNCHANGED calls
    /\ UNCHANGED <<sink, worker, tpc, wpc, task,
                   ssock_q, ssock_r, tsock_q, tsock_r, hist>>

\* one turn of the loop of Source.close, recv_pyobj delivering the i-th of
\* the waiting requests
SourceCloseServe(i) ==
    /\ spc = "close"
    /\ SourceWaiting(source)
    /\ ~source.unanswered
    /\ i \in 1..Len(ssock_q)
    /\ LET m == ssock_q[i]
           req == loads(m.data)
       IN  /\ ssock_q' = Remove(ssock_q, i)
           /\ IF req = None
              THEN /\ ssock_r' = Reply(ssock_r, m.from, SourceCloseReply(task))
                   /\ UNCHANGED <<source, spc, hist>>
              ELSE IF SourceControl(req)
              THEN /\ ssock_r' = Reply(ssock_r, m.from, None)
                   /\ source' = [source EXCEPT
                                   !.nworkers = SourceCloseCount(@, req)]
                   /\ hist' = SourceCounted(hist, req, m.from, source'.nworkers)
                   /\ UNCHANGED spc
              ELSE \* raise Error("Invalid request"): the request stays unanswered
                   /\ spc' = "raised"
                   /\ source' = [source EXCEPT !.unanswered = TRUE]
                   /\ UNCHANGED <<ssock_r, hist>>
    /\ UNCHANGED <<sink, worker, tpc, wpc, task, tsock_q, tsock_r, calls>>

\* ... the requests delivered in the order of their arrival
SourceCloseRecv == SourceCloseServe(1)

\* Source.close comes to recv_pyobj while ssock has not replied to the request
\* it received last: the REP socket refuses (zmq.ZMQError, EFSM)
SourceCloseFault ==
    /\ spc = "close"
    /\ SourceWaiting(source)
    /\ source.unanswered
    /\ spc' = "fault"
    /\ UNCHANGED <<source, sink, worker, tpc, wpc, task,
                   ssock_q, ssock_r, tsock_q, tsock_r, calls, hist>>

\* dist.py:83-90, __exit__ / __del__ after send or close has raised: close()
SourceExit ==
    /\ spc = "raised"
    /\ IF SourceIsClosed(source)
       THEN /\ calls' = [calls EXCEPT !.reclosed = @ \cup {SRC}]
            /\ UNCHANGED <<source, spc>>
       ELSE /\ source' = [source EXCEPT !.closed = TRUE]
            /\ spc' = "close"
            /\ UNCHANGED calls
    /\ UNCHANGED <<sink, worker, tpc, wpc, task,
                   ssock_q, ssock_r, tsock_q, tsock_r, hist>>

\* the loop of Source.close is over: SourceExited goes to the Sink
SourceCloseExit ==
    /\ spc = "close"
    /\ ~SourceWaiting(source)
    /\ tsock_q' = Append(tsock_q, Request(SRC, SourceExitedMessage))
    /\ spc' = "exit"
    /\ hist' = [hist EXCEPT !.srcexit = @ + 1]
    /\ UNCHANGED <<source, sink, worker, tpc, wpc, task,
                   ssock_q, ssock_r, tsock_r, calls>>

\* a Source.close that does not look at the reply
SourceAckedAnything(rep) == TRUE

\* dist.py:143, the reply to SourceExited is the null acknowledgement
SourceAcked(rep) == rep = None

\* the Sink's reply to SourceExited; the sockets are closed and close returns
SourceCloseAck ==
    /\ spc = "exit"
    /\ tsock_r[SRC] # NoMsg
    /\ LET rep == loads(tsock_r[SRC])
       IN  spc' = IF ~SourceAcked(rep) THEN "raised" ELSE "idle"
    /\ tsock_r' = Taken(tsock_r, SRC)
    /\ UNCHANGED <<source, sink, worker, tpc, wpc, task,
                   ssock_q, ssock_r, tsock_q, calls, hist>>

(* ------------------------------- Sink --------------------------------- *)
\* a Sink.next that receives only while both conditions hold
SinkWaitingBoth(t) == ~t.source_closed /\ t.nworkers > 0

\* dist.py:181, Sink.next keeps receiving
SinkWaiting(t) == ~t.source_closed \/ t.nworkers > 0

\* a Sink.next that acknowledges WorkerExited without counting it
SinkCountNoExit(n, result) ==
    IF isinstance(result, WorkerJoinMessage) THEN n + 1 ELSE n

\* dist.py:185-190, the worker count after a message in Sink.next
SinkCount(n, result) ==
    IF isinstance(result, WorkerJoinMessage) THEN n + 1
    ELSE IF isinstance(result, WorkerExitedMessage) THEN n - 1
    ELSE n

\* a Sink.next that returns SourceExited to the consumer after setting its flag
SinkControlNoSourceExited(result) ==
    \/ isinstance(result, WorkerJoinMessage)
    \/ isinstance(result, WorkerExitedMessage)

\* dist.py:185-195, the messages Sink.next keeps to itself
SinkControl(result) ==
    \/ isinstance(result, WorkerJoinMessage)
    \/ isinstance(result, WorkerExitedMessage)
    \/ isinstance(result, SourceExitedMessage)

\* a Sink.next whose flag follows the last message received
SinkSourceClosedLast(flag, result) == isinstance(result, SourceExitedMessage)

\* dist.py:191-193, the source_closed flag after a message in Sink.next
SinkSourceClosed(flag, result) ==
    IF isinstance(result, SourceExitedMessage) THEN TRUE ELSE flag

\* a Sink.next that sends the message back
SinkReplyEcho(result) == result

\* dist.py:183, what Sink.next replies to a message
SinkReply(result) == None

\* dist.py:204, Sink.close has run before
SinkIsClosed(t) == t.closed

\* the consumer calls Sink.next()
SinkNextCall ==
    /\ tpc \in {"idle", "stopped"}
    /\ tpc' = "next"
    /\ UNCHANGED <<source, sink, worker, spc, wpc, task,
                   ssock_q, ssock_r, tsock_q, tsock_r, calls, hist>>

\* one turn of the loop of Sink.next: recv_pyobj, the None reply, the dispatch
SinkNextRecv ==
    /\ tpc = "next"
    /\ SinkWaiting(sink)
    /\ ~sink.closed
    /\ tsock_q # <<>>
    /\ LET m == Head(tsock_q)
           result == loads(m.data)
       IN  /\ tsock_q' = Tail(tsock_q)
           /\ tsock_r' = Reply(tsock_r, m.from, SinkReply(result))
           /\ sink' = [sink EXCEPT
                 !.nworkers = SinkCount(@, result),
                 !.source_closed = SinkSourceClosed(@, result)]
           /\ tpc' = IF SinkControl(result) THEN "next" ELSE "idle"
           /\ hist' = [hist EXCEPT
                 !.tcount = Counted(@, result, sink'.nworkers),
                 !.tjoined = IF isinstance(result, WorkerJoinMessage)
                             THEN @ \cup {m.from} ELSE @,
                 !.texited = IF isinstance(result, WorkerExitedMessage)
                             THEN @ \cup {m.from} ELSE @,
                 !.yielded = IF SinkControl(result) THEN @ ELSE Bump(@, result)]
    /\ UNCHANGED <<source, worker, spc, wpc, task, ssock_q, ssock_r, calls>>

\* a Sink.next that starts over once it has signalled the end
SinkNextStopRestart ==
    /\ tpc = "next"
    /\ ~SinkWaiting(sink)
    /\ tpc' = "stopped"
    /\ sink' = [sink EXCEPT !.source_closed = FALSE]
    /\ UNCHANGED <<source, worker, spc, wpc, task,
                   ssock_q, ssock_r, tsock_q, tsock_r, calls, hist>>

\* the loop condition of Sink.next is false: raise StopIteration
SinkNextStop ==
    /\ tpc = "next"
    /\ ~SinkWaiting(sink)
    /\ tpc' = "stopped"
    /\ UNCHANGED <<source, sink, worker, spc, wpc, task,
                   ssock_q, ssock_r, tsock_q, tsock_r, calls, hist>>

\* the consumer calls Sink.close(), after the sequence has ended
SinkCloseCall ==
    /\ tpc = "stopped"
    /\ IF SinkIsClosed(sink)
       THEN /\ calls' = [calls EXCEPT !.reclosed = @ \cup {SNK}]
            /\ UNCHANGED sink
       ELSE /\ sink' = [sink EXCEPT !.closed = TRUE]
            /\ UNCHANGED calls
    /\ UNCHANGED <<source, worker, spc, tpc, wpc, task,
                   ssock_q, ssock_r, tsock_q, tsock_r, hist>>

(* ------------------------------ Worker -------------------------------- *)
\* a Worker that takes any reply for the acknowledgement
IsAckAnything(rep) == TRUE

\* dist.py:231, 237, 272, 287, 293: the reply is the null acknowledgement
IsAck(rep) == rep = None

\* the step at which a method of w raised Error on a reply other than None
Raised(h, w, step, rep) ==
    IF rep = None \/ h.raisedat[w] # "nowhere"
    THEN h
    ELSE [h EXCEPT !.raisedat[w] = step]

\* dist.py:260, the reply ends the worker's sequence of tasks
IsNoMoreJobs(t) == isinstance(t, NoMoreJobsMessage)

\* a Worker.close without the guard
WorkerIsClosedNever(o) == FALSE

\* dist.py:280, Worker.close has run before
WorkerIsClosed(o) == o.closed

\* between two calls of the Worker API, close() not yet called
WorkerOpen(w) == wpc[w] \in {"ready", "stopped"} /\ ~worker[w].closed

\* a Worker.__init__ that joins the Sink without joining the Source
WorkerInitSinkFirst(w) ==
    /\ wpc[w] = "new"
    /\ tsock_q' = Append(tsock_q, Request(w, WorkerJoinMessage))
    /\ wpc' = [wpc EXCEPT ![w] = "join_t"]
    /\ UNCHANGED <<source, sink, worker, spc, tpc, task,
                   ssock_q, ssock_r, tsock_r, calls, hist>>

\* Worker.__init__ up to the first recv_pyobj: WorkerJoin goes to the Source
WorkerInit(w) ==
    /\ wpc[w] = "new"
    /\ ssock_q' = Append(ssock_q, Request(w, WorkerJoinMessage))
    /\ wpc' = [wpc EXCEPT ![w] = "join_s"]
    /\ UNCHANGED <<source, sink, worker, spc, tpc, task,
                   ssock_r, tsock_q, tsock_r, calls, hist>>

\* the Source's reply to the join; WorkerJoin goes to the Sink
WorkerJoinSource(w) ==
    /\ wpc[w] = "join_s"
    /\ ssock_r[w] # NoMsg
    /\ ssock_r' = Taken(ssock_r, w)
    /\ IF IsAck(loads(ssock_r[w]))
       THEN /\ tsock_q' = Append(tsock_q, Request(w, WorkerJoinMessage))
            /\ wpc' = [wpc EXCEPT ![w] = "join_t"]
       ELSE /\ wpc' = [wpc EXCEPT ![w] = "raised"]
            /\ UNCHANGED tsock_q
    /\ hist' = Raised(hist, w, "join_s", loads(ssock_r[w]))
    /\ UNCHANGED <<source, sink, worker, spc, tpc, task,
                   ssock_q, tsock_r, calls>>

\* the Sink's reply to the join: the constructor returns
WorkerJoinSink(w) ==
    /\ wpc[w] = "join_t"
    /\ tsock_r[w] # NoMsg
    /\ tsock_r' = Taken(tsock_r, w)
    /\ wpc' = [wpc EXCEPT ![w] =
                 IF IsAck(loads(tsock_r[w])) THEN "ready" ELSE "raised"]
    /\ hist' = Raised(hist, w, "join_t", loads(tsock_r[w]))
    /\ UNCHANGED <<source, sink, worker, spc, tpc, task,
                   ssock_q, ssock_r, tsock_q, calls>>

\* Worker.next up to recv_pyobj: the plain request goes to the Source
WorkerNextRequest(w) ==
    /\ ssock_q' = Append(ssock_q, Request(w, None))
    /\ wpc' = [wpc EXCEPT ![w] = "next"]
    /\ hist' = [hist EXCEPT !.late =
                  IF source.closed THEN @ \cup {w} ELSE @ \ {w}]
    /\ UNCHANGED <<source, sink, worker, spc, tpc, task,
                   ssock_r, tsock_q, tsock_r, calls>>

\* the application calls next() on a worker it has not closed
WorkerNextCall(w) == WorkerOpen(w) /\ WorkerNextRequest(w)

\* the Source's reply: Worker.next returns the task or raises StopIteration
WorkerNextRecv(w) ==
    /\ wpc[w] = "next"
    /\ ssock_r[w] # NoMsg
    /\ ssock_r' = Taken(ssock_r, w)
    /\ LET t == loads(ssock_r[w])
       IN  IF IsNoMoreJobs(t)
           THEN /\ wpc' = [wpc EXCEPT ![w] = "stopped"]
                /\ hist' = [hist EXCEPT !.late = @ \ {w}]
           ELSE /\ wpc' = [wpc EXCEPT ![w] = "ready"]
                /\ hist' = [hist EXCEPT !.got = Bump(@, t), !.late = @ \ {w}]
    /\ UNCHANGED <<source, sink, worker, spc, tpc, task,
                   ssock_q, tsock_q, tsock_r, calls>>

\* Worker.send(r) up to recv_pyobj: the result goes to the Sink
WorkerSendRequest(w, r) ==
    /\ calls.result < MaxResults
    /\ calls' = [calls EXCEPT !.result = @ + 1]
    /\ worker' = [worker EXCEPT ![w].result = r]
    /\ tsock_q' = Append(tsock_q, Request(w, r))
    /\ wpc' = [wpc EXCEPT ![w] = "send"]
    /\ hist' = [hist EXCEPT !.submitted = Bump(@, r)]
    /\ UNCHANGED <<source, sink, spc, tpc, task, ssock_q, ssock_r, tsock_r>>

\* the application calls send(r) on a worker it has not closed
WorkerSendCall(w, r) == WorkerOpen(w) /\ WorkerSendRequest(w, r)

\* the Sink's reply to the result: Worker.send returns
WorkerSendRecv(w) ==
    /\ wpc[w] = "send"
    /\ tsock_r[w] # NoMsg
    /\ tsock_r' = Taken(tsock_r, w)
    /\ IF IsAck(loads(tsock_r[w]))
       THEN /\ wpc' = [wpc EXCEPT ![w] = "ready"]
            /\ hist' = [hist EXCEPT !.acked = Bump(@, worker[w].result)]
       ELSE /\ wpc' = [wpc EXCEPT ![w] = "raised"]
            /\ hist' = Raised(hist, w, "send", loads(tsock_r[w]))
    /\ worker' = [worker EXCEPT ![w].result = None]
    /\ UNCHANGED <<source, sink, spc, tpc, task,
                   ssock_q, ssock_r, tsock_q, calls>>

\* Worker.close up to the first recv_pyobj: WorkerExited goes to the Source
WorkerCloseCall(w) ==
    /\ wpc[w] \in {"ready", "stopped", "exited"}
    /\ IF WorkerIsClosed(worker[w])
       THEN /\ calls' = [calls EXCEPT !.reclosed = @ \cup {w}]
            /\ UNCHANGED <<worker, wpc, ssock_q, hist>>
       ELSE /\ worker' = [worker EXCEPT ![w].closed = TRUE]
            /\ ssock_q' = Append(ssock_q, Request(w, WorkerExitedMessage))
            /\ wpc' = [wpc EXCEPT ![w] = "exit_s"]
            /\ hist' = [hist EXCEPT !.sexit = Bump(@, w)]
            /\ UNCHANGED calls
    /\ UNCHANGED <<source, sink, spc, tpc, task,
                   ssock_r, tsock_q, tsock_r>>

\* the Source's reply to the exit; WorkerExited goes to the Sink
WorkerExitSource(w) ==
    /\ wpc[w] = "exit_s"
    /\ ssock_r[w] # NoMsg
    /\ ssock_r' = Taken(ssock_r, w)
    /\ IF IsAck(loads(ssock_r[w]))
       THEN /\ tsock_q' = Append(tsock_q, Request(w, WorkerExitedMessage))
            /\ wpc' = [wpc EXCEPT ![w] = "exit_t"]
            /\ hist' = [hist EXCEPT !.texit = Bump(@, w)]
       ELSE /\ wpc' = [wpc EXCEPT ![w] = "raised"]
            /\ hist' = Raised(hist, w, "exit_s", loads(ssock_r[w]))
            /\ UNCHANGED tsock_q
    /\ UNCHANGED <<source, sink, worker, spc, tpc, task,
                   ssock_q, tsock_r, calls>>

\* the Sink's reply to the exit: Worker.close returns
WorkerExitSink(w) ==
    /\ wpc[w] = "exit_t"
    /\ tsock_r[w] # NoMsg
    /\ tsock_r' = Taken(tsock_r, w)
    /\ wpc' = [wpc EXCEPT ![w] =
                 IF IsAck(loads(tsock_r[w])) THEN "exited" ELSE "raised"]
    /\ hist' = Raised(hist, w, "exit_t", loads(tsock_r[w]))
    /\ UNCHANGED <<source, sink, worker, spc, tpc, task,
                   ssock_q, ssock_r, tsock_q, calls>>

\* dist.py:240-241, 249-250: __del__ / __exit__ once a method of w has raised
\* Error: close()
WorkerDel(w) ==
    /\ wpc[w] = "raised"
    /\ IF WorkerIsClosed(worker[w])
       THEN /\ calls' = [calls EXCEPT !.reclosed = @ \cup {w}]
            /\ UNCHANGED <<worker, wpc, ssock_q, hist>>
       ELSE /\ worker' = [worker EXCEPT ![w].closed = TRUE]
            /\ ssock_q' = Append(ssock_q, Request(w, WorkerExitedMessage))
            /\ wpc' = [wpc EXCEPT ![w] = "exit_s"]
            /\ hist' = [hist EXCEPT !.sexit = Bump(@, w)]
            /\ UNCHANGED calls
    /\ UNCHANGED <<source, sink, spc, tpc, task,
                   ssock_r, tsock_q, tsock_r>>

\* the application calls next() or send(r) on a worker whose close() has
\* returned: neither method looks at the closed flag
WorkerNextClosed(w) ==
    /\ wpc[w] \in {"ready", "stopped", "exited"}
    /\ worker[w].closed
    /\ WorkerNextRequest(w)

WorkerSendClosed(w, r) ==
    /\ wpc[w] \in {"ready", "stopped", "exited"}
    /\ worker[w].closed
    /\ WorkerSendRequest(w, r)

(* --------------------------- specification ---------------------------- *)
\* one Source, one Sink, workers that follow the order of the Worker API and
\* hand application payloads to send
Next ==
    \/ \E t \in AppPayloads : SourceSendCall(t)
    \/ SourceSendRecv
    \/ SourceCloseCall
    \/ SourceCloseRecv
    \/ SourceCloseExit
    \/ SourceCloseAck
    \/ SinkNextCall
    \/ SinkNextRecv
    \/ SinkNextStop
    \/ SinkCloseCall
    \/ \E w \in Workers :
        \/ WorkerInit(w)
        \/ WorkerJoinSource(w)
        \/ WorkerJoinSink(w)
        \/ WorkerNextCall(w)
        \/ WorkerNextRecv(w)
        \/ \E r \in AppPayloads : WorkerSendCall(w, r)
        \/ WorkerSendRecv(w)
        \/ WorkerCloseCall(w)
        \/ WorkerExitSource(w)
        \/ WorkerExitSink(w)

Spec == Init /\ [][Next]_vars

\* the same system, with any object the API accepts as a task: send_pyobj
\* pickles instances of the message classes like any other object
NextTasks ==
    \/ \E t \in TaskPayloads : SourceSendCall(t)
    \/ SourceSendRecv
    \/ SourceCloseCall
    \/ SourceCloseRecv
    \/ SourceCloseExit
    \/ SourceCloseAck
    \/ SinkNextCall
    \/ SinkNextRecv
    \/ SinkNextStop
    \/ SinkCloseCall
    \/ \E w \in Workers :
        \/ WorkerInit(w)
        \/ WorkerJoinSource(w)
        \/ WorkerJoinSink(w)
        \/ WorkerNextCall(w)
        \/ WorkerNextRecv(w)
        \/ \E r \in AppPayloads : WorkerSendCall(w, r)
        \/ WorkerSendRecv(w)
        \/ WorkerCloseCall(w)
        \/ WorkerExitSource(w)
        \/ WorkerExitSink(w)

SpecTasks == Init /\ [][NextTasks]_vars

\* the same system, with any object the API accepts as a result
NextResults ==
    \/ \E t \in AppPayloads : SourceSendCall(t)
    \/ SourceSendRecv
    \/ SourceCloseCall
    \/ SourceCloseRecv
    \/ SourceCloseExit
    \/ SourceCloseAck
    \/ SinkNextCall
    \/ SinkNextRecv
    \/ SinkNextStop
    \/ SinkCloseCall
    \/ \E w \in Workers :
        \/ WorkerInit(w)
        \/ WorkerJoinSource(w)
        \/ WorkerJoinSink(w)
        \/ WorkerNextCall(w)
        \/ WorkerNextRecv(w)
        \/ \E r \in ResultPayloads : WorkerSendCall(w, r)
        \/ WorkerSendRecv(w)
        \/ WorkerCloseCall(w)
        \/ WorkerExitSource(w)
        \/ WorkerExitSink(w)

SpecResults == Init /\ [][NextResults]_vars

\* the system of the shutdown scenario: the producer sends tasks and then
\* closes, every worker loops on next() (sending results in between) until
\* StopIteration and then closes, the consumer iterates until StopIteration
SourceRun ==
    \/ SourceSendRecv
    \/ SourceCloseRecv
    \/ SourceCloseExit
    \/ SourceCloseAck

SinkRun ==
    \/ tpc = "idle" /\ SinkNextCall
    \/ SinkNextRecv
    \/ SinkNextStop

WorkerRun(w) ==
    \/ WorkerJoinSource(w)
    \/ WorkerJoinSink(w)
    \/ wpc[w] = "ready" /\ WorkerNextCall(w)
    \/ WorkerNextRecv(w)
    \/ \E r \in AppPayloads : wpc[w] = "ready" /\ WorkerSendCall(w, r)
    \/ WorkerSendRecv(w)
    \/ wpc[w] \in {"stopped", "exited"} /\ WorkerCloseCall(w)
    \/ WorkerExitSource(w)
    \/ WorkerExitSink(w)

NextLive ==
    \/ \E t \in AppPayloads : SourceSendCall(t)
    \/ SourceCloseCall
    \/ SourceRun
    \/ SinkRun
    \/ SinkCloseCall
    \/ \E w \in Workers : WorkerInit(w) \/ WorkerRun(w)

\* each of the processes is scheduled again and again: a method that can take
\* its next step does; when the producer calls and when a Worker is constructed
\* is left open
SpecLive ==
    /\ Init
    /\ [][NextLive]_vars
    /\ WF_vars(SourceRun)
    /\ WF_vars(SinkRun)
    /\ \A w \in Workers : WF_vars(WorkerRun(w))

\* the same system, the REP socket of the Source delivering the waiting
\* requests in an order of its own: a zmq.REP socket fair-queues among its
\* peers, and each peer has at most one request waiting
NextFair ==
    \/ \E t \in AppPayloads : SourceSendCall(t)
    \/ \E i \in 1..NumWorkers : SourceSendServe(i)
    \/ SourceCloseCall
    \/ \E i \in 1..NumWorkers : SourceCloseServe(i)
    \/ SourceCloseExit
    \/ SourceCloseAck
    \/ SinkNextCall
    \/ SinkNextRecv
    \/ SinkNextStop
    \/ SinkCloseCall
    \/ \E w \in Workers :
        \/ WorkerInit(w)
        \/ WorkerJoinSource(w)
        \/ WorkerJoinSink(w)
        \/ WorkerNextCall(w)
        \/ WorkerNextRecv(w)
        \/ \E r \in AppPayloads : WorkerSendCall(w, r)
        \/ WorkerSendRecv(w)
        \/ WorkerCloseCall(w)
        \/ WorkerExitSource(w)
        \/ WorkerExitSink(w)

SpecFair == Init /\ [][NextFair]_vars

\* the same system, with an application that goes on calling next() and
\* send() on a worker after its close()
NextReuse ==
    \/ Next
    \/ \E w \in Workers :
        \/ WorkerNextClosed(w)
        \/ \E r \in AppPayloads : WorkerSendClosed(w, r)

SpecReuse == Init /\ [][NextReuse]_vars

(* --------------------------- a raw REQ peer --------------------------- *)
\* a request of client c is waiting in q or its reply has not been taken: a
\* REQ socket sends again only after it has received
Outstanding(q, r, c) ==
    \/ \E i \in 1..Len(q) : q[i].from = c
    \/ r[c] # NoMsg

\* what a peer that is not a Worker object may deliver, in any order
RawToSource == {None, WorkerJoinMessage, WorkerExitedMessage}
RawToSink == {Obj("str", 1), WorkerJoinMessage, WorkerExitedMessage}

\* a REQ socket connected to the Source's address sends o
RawRequestSource(o) ==
    /\ calls.raw < MaxRaw
    /\ ~Outstanding(ssock_q, ssock_r, RAW)
    /\ ssock_q' = Append(ssock_q, Request(RAW, o))
    /\ calls' = [calls EXCEPT !.raw = @ + 1]
    /\ UNCHANGED <<source, sink, worker, spc, tpc, wpc, task,
                   ssock_r, tsock_q, tsock_r, hist>>

\* a REQ socket connected to the Sink's address sends o
RawRequestSink(o) ==
    /\ calls.raw < MaxRaw
    /\ ~Outstanding(tsock_q, tsock_r, RAW)
    /\ tsock_q' = Append(tsock_q, Request(RAW, o))
    /\ calls' = [calls EXCEPT !.raw = @ + 1]
    /\ UNCHANGED <<source, sink, worker, spc, tpc, wpc, task,
                   ssock_q, ssock_r, tsock_r, hist>>

\* the raw peer receives the Source's reply
RawRecvSource ==
    /\ ssock_r[RAW] # NoMsg
    /\ ssock_r' = Taken(ssock_r, RAW)
    /\ UNCHANGED <<source, sink, worker, spc, tpc, wpc, task,
                   ssock_q, tsock_q, tsock_r, calls, hist>>

\* the raw peer receives the Sink's reply
RawRecvSink ==
    /\ tsock_r[RAW] # NoMsg
    /\ tsock_r' = Taken(tsock_r, RAW)
    /\ UNCHANGED <<source, sink, worker, spc, tpc, wpc, task,
                   ssock_q, ssock_r, tsock_q, calls, hist>>

\* the Source and the Sink served by a raw peer: any sequence of requests
NextRaw ==
    \/ \E t \in AppPayloads : SourceSendCall(t)
    \/ SourceSendRecv
    \/ SourceCloseCall
    \/ SourceCloseRecv
    \/ SourceCloseExit
    \/ SourceCloseAck
    \/ SinkNextCall
    \/ SinkNextRecv
    \/ SinkNextStop
    \/ SinkCloseCall
    \/ \E o \in RawToSource : RawRequestSource(o)
    \/ \E o \in RawToSink : RawRequestSink(o)
    \/ RawRecvSource
    \/ RawRecvSink

SpecRaw == Init /\ [][NextRaw]_vars

\* requests that are neither the plain request nor WorkerJoin nor WorkerExited
RawInvalid == {Obj("str", 1), SourceExitedMessage}

\* the Source and the Sink served by a raw peer that also sends the Source
\* requests it does not expect; a Source whose method raised is closed by
\* __exit__ / __del__
NextInvalid ==
    \/ NextRaw
    \/ \E o \in RawInvalid : RawRequestSource(o)
    \/ SourceExit
    \/ SourceCloseFault

SpecInvalid == Init /\ [][NextInvalid]_vars

(* ----------------------- a foreign peer as sink ----------------------- *)
\* what a REP socket bound at the sink address may reply when it is not a Sink
ForeignReplies == {None, Obj("str", 1)}

\* something else than a Sink is bound at taddr: it answers the request with o
ForeignReply(o) ==
    /\ tpc = "foreign"
    /\ tsock_q # <<>>
    /\ tsock_r' = Reply(tsock_r, Head(tsock_q).from, o)
    /\ tsock_q' = Tail(tsock_q)
    /\ UNCHANGED <<source, sink, worker, spc, tpc, wpc, task,
                   ssock_q, ssock_r, calls, hist>>

\* the system with a Sink at taddr, or with a foreign REP peer there
InitPeer == Constructed /\ tpc \in {"idle", "foreign"}

NextPeer ==
    \/ Next
    \/ \E o \in ForeignReplies : ForeignReply(o)

SpecPeer == InitPeer /\ [][NextPeer]_vars

(* --------------------- foreign peers at both addresses ---------------- *)
\* what a REP socket bound at the source address may reply when it is not a
\* Source
ForeignSourceReplies == {None, NoMoreJobsMessage}

\* something else than a Source is bound at saddr: it answers the request with o
ForeignSourceReply(o) ==
    /\ spc = "foreign"
    /\ ssock_q # <<>>
    /\ IF loads(Head(ssock_q).data) = None
       THEN /\ calls.foreign < MaxForeign
            /\ calls' = [calls EXCEPT !.foreign = @ + 1]
       ELSE UNCHANGED calls
    /\ ssock_r' = Reply(ssock_r, Head(ssock_q).from, o)
    /\ ssock_q' = Tail(ssock_q)
    /\ UNCHANGED <<source, sink, worker, spc, tpc, wpc, task,
                   tsock_q, tsock_r, hist>>

\* workers with a Source or a foreign REP peer at saddr, and a Sink or a
\* foreign REP peer at taddr; an object whose method raised is finalized
InitForeign == Fresh /\ spc \in {"idle", "foreign"} /\ tpc \in {"idle", "foreign"}

NextForeign ==
    \/ Next
    \/ \E o \in ForeignReplies : ForeignReply(o)
    \/ \E o \in ForeignSourceReplies : ForeignSourceReply(o)
    \/ \E w \in Workers : WorkerDel(w)
    \/ SourceExit

SpecForeign == InitForeign /\ [][NextForeign]_vars

(* ------------------------------ claims -------------------------------- *)
\* the Source has acknowledged w's join and w has not begun close(): w may
\* still call next() and send()
Serving(w) ==
    \/ wpc[w] \in {"join_t", "ready", "stopped", "next", "send"}
    \/ wpc[w] = "join_s" /\ ssock_r[w] # NoMsg

\* C1: whenever Sink.next() has signalled end-of-sequence, every worker whose
\* join the Sink processed has had its WorkerExited processed by the Sink, no
\* worker is in or before a Worker.send (none is registered and still open),
\* and every result handed to Worker.send has been yielded.
C1_NoResultLost ==
    tpc = "stopped" =>
        /\ hist.tjoined \subseteq hist.texited
        /\ \A w \in Workers : ~Serving(w)
        /\ \A r \in AnyPayloads : hist.submitted[r] = hist.yielded[r]

\* the sequence has ended after a worker joined, delivered a result and left
C1_Witness ==
    /\ tpc = "stopped"
    /\ \E w \in Workers : wpc[w] = "exited" /\ w \in hist.texited
    /\ \E r \in AnyPayloads : hist.yielded[r] > 0

\* the replies carrying t on their way to a worker blocked in Worker.next
TasksInFlight(t) ==
    Cardinality({w \in Workers :
        wpc[w] = "next" /\ ssock_r[w] # NoMsg /\ loads(ssock_r[w]) = t})

\* a task is handed out once: the Source.send(t) that have returned are the
\* Worker.next() that returned t and those about to
TaskOnce(t) ==
    /\ hist.got[t] <= hist.sent[t]
    /\ hist.sent[t] <= hist.got[t] + TasksInFlight(t)

\* C2 as stated: every task value t handed out by a completed Source.send(t) is
\* returned by exactly one Worker.next(), never by two and never dropped.
C2_AnyTaskOnce == \A t \in AnyPayloads : TaskOnce(t)

\* C2, amended: the same for every task value that is not an instance of
\* NoMoreJobsMessage.
C2_TaskOnce == \A t \in AnyPayloads : ~IsNoMoreJobs(t) => TaskOnce(t)

\* two tasks were handed out and both returned by Worker.next
C2_Witness ==
    /\ hist.sent[Obj("str", 1)] = 2
    /\ hist.got[Obj("str", 1)] = 2

\* the acknowledgements of a result r on their way to a worker in Worker.send
AcksInFlight(r) ==
    Cardinality({w \in Workers :
        wpc[w] = "send" /\ tsock_r[w] # NoMsg /\ worker[w].result = r})

\* a result is yielded once: the Worker.send(r) that have returned or are
\* about to are the elements equal to r that Sink.next has yielded, and the
\* Sink yields nothing that was not submitted
ResultOnce(r) ==
    /\ hist.yielded[r] = hist.acked[r] + AcksInFlight(r)
    /\ hist.yielded[r] <= hist.submitted[r]

\* C3 as stated: for any payload r, each Worker.send(r) that returns
\* corresponds to exactly one element equal to r yielded by Sink.next(), and
\* the Sink yields no element that was not submitted.
C3_AnyResultOnce == \A r \in AnyPayloads : ResultOnce(r)

\* C3, amended: the same for every payload that is not an instance of
\* WorkerJoinMessage, WorkerExitedMessage or SourceExitedMessage; of those the
\* Sink yields none.
C3_ResultOnce ==
    \A r \in AnyPayloads :
        IF r \in {WorkerJoinMessage, WorkerExitedMessage, SourceExitedMessage}
        THEN hist.yielded[r] = 0
        ELSE ResultOnce(r)

\* two Worker.send have returned and both payloads were yielded
C3_Witness ==
    /\ hist.acked[Obj("str", 1)] = 2
    /\ hist.yielded[Obj("str", 1)] = 2

\* C4: once Source.close() has been invoked, Source answers every plain request
\* it answers with NoMoreJobs, never with a task, and every Worker.next() called
\* after that moment raises StopIteration.
C4_NoTaskAfterClose ==
    [][\A w \in Workers :
         /\ (source.closed /\ wpc[w] = "next" /\ ssock_r[w] = NoMsg
               /\ ssock_r'[w] # NoMsg)
                => loads(ssock_r'[w]) = NoMoreJobsMessage
         /\ (w \in hist.late /\ wpc[w] = "next" /\ wpc'[w] # "next")
                => wpc'[w] = "stopped"]_vars

\* a Worker.next() called after Source.close() is being answered, after a task
\* was handed out before the close
C4_Witness ==
    \E w \in Workers :
        /\ w \in hist.late
        /\ wpc[w] = "next"
        /\ ssock_r[w] = dumps(NoMoreJobsMessage)
        /\ \E t \in AppPayloads : hist.got[t] > 0

\* C5: Sink.next() raises StopIteration exactly when, at its check before a
\* receive, source_closed is true and the worker count is 0, which is when the
\* Source has closed and every worker that joined the Sink has exited; in every
\* other state it receives a message (or blocks for one) and does not end.
C5_ExhaustedIff ==
    [][LET ends == tpc = "next" /\ tpc' = "stopped"
           recvs == Len(tsock_q') < Len(tsock_q)
           done == sink.source_closed /\ sink.nworkers = 0
       IN  /\ ends => done /\ tsock_q' = tsock_q /\ tsock_r' = tsock_r
           /\ ends => source.closed /\ hist.tjoined \subseteq hist.texited
           /\ recvs => ~done
           /\ (tpc = "next" /\ tpc' \notin {"next", "stopped"}) => recvs]_vars

\* the sequence has ended once a worker had joined and exited
C5_Witness ==
    /\ tpc = "stopped"
    /\ sink.source_closed
    /\ hist.texited # {}

\* Source.close() has returned normally
SourceReturned == source.closed /\ spc = "idle"

\* C6: under fair scheduling, once the producer has called Source.close() the
\* call returns, with SourceExited delivered to the Sink and acknowledged, and
\* the Sink's sequence ends.
C6_BothTerminate ==
    /\ source.closed ~> (SourceReturned /\ sink.source_closed)
    /\ source.closed ~> (tpc = "stopped")

\* both have ended after a worker took a task, delivered a result and left
C6_Witness ==
    /\ SourceReturned
    /\ tpc = "stopped"
    /\ \E w \in Workers : wpc[w] = "exited"
    /\ hist.got[Obj("str", 1)] > 0
    /\ hist.yielded[Obj("str", 1)] > 0

\* the count n is the number of joins minus the number of exits processed, and
\* was never negative while they were processed
CountTracks(h, n) == n = h.join - h.exit /\ h.low >= 0

\* C7 as stated: for any sequence of N WorkerJoin and M WorkerExited delivered
\* to the Source (to the Sink) with N >= M, the count after processing them is
\* N - M and was never negative while the sequence was processed.
C7_AnySequence ==
    /\ hist.scount.join >= hist.scount.exit
          => CountTracks(hist.scount, source.nworkers)
    /\ hist.tcount.join >= hist.tcount.exit
          => CountTracks(hist.tcount, sink.nworkers)

\* C7, amended: for any sequence of joins and exits delivered to the Source (to
\* the Sink) of which every prefix holds at least as many joins as exits, the
\* count after processing them is N - M and was never negative.
C7_CountIsJoinsMinusExits ==
    /\ hist.scount.minbal >= 0
          => CountTracks(hist.scount, source.nworkers) /\ source.nworkers >= 0
    /\ hist.tcount.minbal >= 0
          => CountTracks(hist.tcount, sink.nworkers) /\ sink.nworkers >= 0

\* the Source and the Sink have each processed a join and then an exit
C7_Witness ==
    /\ hist.scount = [join |-> 1, exit |-> 1, minbal |-> 0, low |-> 0]
    /\ hist.tcount = [join |-> 1, exit |-> 1, minbal |-> 0, low |-> 0]

\* w is in the middle of its join handshake or of its exit handshake
InHandshake(w) == wpc[w] \in {"join_s", "join_t", "exit_s", "exit_t"}

\* the workers that have completed joining and not started closing
Joined == {w \in Workers : wpc[w] \in {"ready", "stopped", "next", "send"}}

\* C8: in every reachable state in which no worker is in the middle of its
\* join or exit handshake, Source.nworkers equals Sink.nworkers and both equal
\* the number of workers that have completed joining and not started closing.
C8_CountsConverge ==
    (\A w \in Workers : ~InHandshake(w)) =>
        /\ source.nworkers = sink.nworkers
        /\ source.nworkers = Cardinality(Joined)

\* one worker has come and gone, another is joined
C8_Witness ==
    /\ \A w \in Workers : ~InHandshake(w)
    /\ \E w \in Workers : wpc[w] = "exited"
    /\ source.nworkers = 1
    /\ sink.nworkers = 1

\* C9: Source.close() sends SourceExited only once its worker count has reached
\* 0, serving its socket until then; it returns normally only after the null
\* Ack for it has come, and any other reply raises Error. So the Sink never
\* observes SourceExited while a worker registered at the Source has not yet
\* sent its WorkerExited to the Source.
C9_Holds ==
    /\ hist.srcexit > 0 => source.nworkers = 0 /\ hist.srcexit = 1
    /\ sink.source_closed => \A w \in Workers : ~Serving(w)
    /\ SourceReturned =>
          /\ hist.srcexit = 1
          /\ tsock_r[SRC] = NoMsg
          /\ \A i \in 1..Len(tsock_q) : tsock_q[i].from # SRC
          /\ tpc # "foreign" => sink.source_closed

C9_SourceExitedLast ==
    [][/\ C9_Holds
       /\ C9_Holds'
       /\ (spc = "close" /\ source.nworkers > 0) => spc' = "close"
       /\ (spc = "close" /\ spc' = "exit") => source.nworkers = 0
       /\ (spc = "exit" /\ spc' # "exit") =>
             /\ tsock_r[SRC] # NoMsg
             /\ spc' = "idle" <=> loads(tsock_r[SRC]) = None
             /\ spc' = "raised" <=> loads(tsock_r[SRC]) # None]_vars

\* Source.close() has served a worker out, sent SourceExited and returned
C9_Witness ==
    /\ SourceReturned
    /\ sink.source_closed
    /\ hist.scount.exit > 0
    /\ \E w \in Workers : wpc[w] \in {"exit_t", "exited"}

\* C10: a second or later close() on the same Source, Sink or Worker exchanges
\* no message and changes no state, so SourceExited is sent at most once and
\* each worker sends WorkerExited at most once to the Source and at most once
\* to the Sink.
C10_CloseIdempotent ==
    [][/\ calls'.reclosed # calls.reclosed =>
             UNCHANGED <<source, sink, worker, spc, tpc, wpc, task,
                         ssock_q, ssock_r, tsock_q, tsock_r, hist>>
       /\ hist'.srcexit <= 1
       /\ \A w \in Workers : hist'.sexit[w] <= 1 /\ hist'.texit[w] <= 1
       /\ \A w \in Workers :
             (worker[w].closed /\ wpc[w] = "exited") => wpc'[w] = "exited"
       /\ SourceReturned => SourceReturned'
       /\ sink.closed => sink' = sink]_vars

\* close() was called again on the Source, the Sink and every Worker
C10_Witness ==
    /\ calls.reclosed = Workers \cup {SRC, SNK}
    /\ hist.srcexit = 1
    /\ \A w \in Workers : hist.sexit[w] = 1 /\ hist.texit[w] = 1

\* the requests of client c waiting in q
RequestsOf(q, c) == {loads(q[i].data) : i \in {j \in 1..Len(q) : q[j].from = c}}

\* w is in recv_pyobj at step and the reply that has come is not None
NonAck(w, step, r) ==
    wpc[w] = step /\ r[w] # NoMsg /\ loads(r[w]) # None

\* C11: a reply other than None to a WorkerJoin or a WorkerExited makes the
\* worker's method raise Error. After such a reply at either join step the
\* worker sends no plain request and no result (close(), run by the finalizer,
\* sends WorkerExited only); after such a reply to the exit sent to the Source
\* it does not send the exit to the Sink.
C11_NonAckIsFatal ==
    [][\A w \in Workers :
         /\ (NonAck(w, "join_s", ssock_r) /\ ssock_r'[w] = NoMsg)
               => wpc'[w] = "raised" /\ tsock_q' = tsock_q
         /\ (NonAck(w, "join_t", tsock_r) /\ tsock_r'[w] = NoMsg)
               => wpc'[w] = "raised"
         /\ (NonAck(w, "exit_s", ssock_r) /\ ssock_r'[w] = NoMsg)
               => wpc'[w] = "raised" /\ tsock_q' = tsock_q
         /\ (NonAck(w, "exit_t", tsock_r) /\ tsock_r'[w] = NoMsg)
               => wpc'[w] = "raised"
         /\ hist.raisedat[w] \in {"join_s", "join_t"} =>
               /\ wpc'[w] \notin {"ready", "next", "send", "stopped"}
               /\ None \notin RequestsOf(ssock_q', w)
               /\ RequestsOf(tsock_q', w) \subseteq
                     {WorkerJoinMessage, WorkerExitedMessage}
         /\ hist.raisedat[w] = "exit_s" =>
               /\ wpc'[w] = "raised"
               /\ hist'.texit[w] = 0
               /\ RequestsOf(tsock_q', w) = {}]_vars

\* one worker's join was refused and its finalizer has run close(); another
\* worker's exit was refused by the peer at the source address
C11_Witness ==
    \E v, w \in Workers :
        /\ hist.raisedat[v] \in {"join_s", "join_t"}
        /\ worker[v].closed
        /\ wpc[v] = "exited"
        /\ hist.raisedat[w] = "exit_s"
        /\ w \in calls.reclosed

\* the request recv_pyobj delivers next at the Source is none of the three
\* the Source expects
InvalidRequest(req) ==
    req \notin {None, WorkerJoinMessage, WorkerExitedMessage}

\* C12: in Source.send and in the loop of Source.close, a request that is
\* neither None nor WorkerJoin nor WorkerExited raises Error: the method ends,
\* the worker count is unchanged, the request gets no reply (no task, no
\* acknowledgement) then or later, and no task counts as handed out; a request
\* that is one of the three raises nothing and is replied to.
C12_InvalidRequestIsFatal ==
    [][LET recvd == Len(ssock_q') < Len(ssock_q)
           m == Head(ssock_q)
       IN  /\ (recvd /\ InvalidRequest(loads(m.data))) =>
                 /\ spc \in {"send", "close"}
                 /\ spc' = "raised"
                 /\ source'.nworkers = source.nworkers
                 /\ ssock_r' = ssock_r
                 /\ hist'.sent = hist.sent
                 /\ hist'.scount = hist.scount
           /\ (recvd /\ ~InvalidRequest(loads(m.data))) =>
                 /\ spc' # "raised"
                 /\ ssock_r'[m.from] # NoMsg
           /\ source.unanswered =>
                 /\ source'.unanswered
                 /\ ssock_r' = ssock_r
                 /\ source'.nworkers = source.nworkers]_vars

\* the loop of Source.close has raised on an invalid request, with a worker
\* registered and after a task was handed out by Source.send
C12_Witness ==
    /\ spc = "raised"
    /\ source.closed
    /\ source.unanswered
    /\ source.nworkers > 0
    /\ hist.sent[Obj("str", 1)] > 0

\* C13: once Worker.close() has been invoked on a worker, that worker is in
\* neither next() nor send() again and none of its requests is a plain request
\* to the Source or a result to the Sink.
C13_ExitedIsTerminal ==
    \A w \in Workers :
        worker[w].closed =>
            /\ wpc[w] \notin {"next", "send"}
            /\ None \notin RequestsOf(ssock_q, w)
            /\ RequestsOf(tsock_q, w) \subseteq {WorkerExitedMessage}

\* C14: the closed flags of the Source, the Sink and every Worker, and the
\* Sink's source_closed flag, once true are true in every later state.
C14_FlagsMonotonic ==
    [][/\ source.closed => source'.closed
       /\ sink.closed => sink'.closed
       /\ sink.source_closed => sink'.source_closed
       /\ \A w \in Workers : worker[w].closed => worker'[w].closed]_vars

\* every flag is set, and close() has been called again on every object
C14_Witness ==
    /\ source.closed
    /\ sink.closed
    /\ sink.source_closed
    /\ \A w \in Workers : worker[w].closed
    /\ calls.reclosed = Workers \cup {SRC, SNK}
    /\ hist.tcount.exit = NumWorkers

\* the condition under which Sink.next signals the end of the sequence
SinkEnded == sink.source_closed /\ sink.nworkers <= 0

\* C15: Sink.next() has signalled end-of-sequence only with the source-closed
\* flag set and no worker counted; from then on the flag and the count do not
\* change, no message is received or acknowledged, nothing is yielded, and a
\* Sink.next() call made later signals end-of-sequence again.
C15_NonRestartable ==
    [][/\ tpc = "stopped" => SinkEnded
       /\ sink.closed => SinkEnded
       /\ SinkEnded =>
             /\ sink'.source_closed = sink.source_closed
             /\ sink'.nworkers = sink.nworkers
             /\ Len(tsock_q') >= Len(tsock_q)
             /\ \A c \in Clients : tsock_r'[c] \in {tsock_r[c], NoMsg}
             /\ hist'.yielded = hist.yielded
             /\ tpc = "next" => tpc' \in {"next", "stopped"}
             /\ tpc = "stopped" => tpc' \in {"stopped", "next"}]_vars

\* Sink.next() is called again after the end of the sequence (and after
\* Sink.close(), which followed it), while a message is waiting at the socket
C15_Witness ==
    /\ tpc = "next"
    /\ sink.closed
    /\ SinkEnded
    /\ tsock_q # <<>>

\* the place in q of the request of client c
PlaceOf(q, c) == CHOOSE i \in 1..Len(q) : q[i].from = c

\* w has a plain request waiting at the Source
Pending(w) ==
    /\ wpc[w] = "next"
    /\ ssock_r[w] = NoMsg
    /\ RequestsOf(ssock_q, w) = {None}

\* the step in which a Source.send returns has answered the plain request of
\* w, and no other request, with the task
AnswersOnly(w) ==
    /\ Pending(w)
    /\ ssock_r' = [ssock_r EXCEPT ![w] = dumps(task)]
    /\ RequestsOf(ssock_q', w) = {}
    /\ Len(ssock_q') = Len(ssock_q) - 1
    /\ \A v \in Workers \ {w} :
          RequestsOf(ssock_q', v) = RequestsOf(ssock_q, v)

\* C16 as stated: each Source.send is answered by exactly one pending plain
\* request, and that request is the one that arrived first of those waiting:
\* of two plain requests the earlier gets the task of the earlier send.
C16_FirstComeFirstServed ==
    [][(spc = "send" /\ spc' = "idle") =>
         \E w \in Workers :
            /\ AnswersOnly(w)
            /\ \A j \in 1..(PlaceOf(ssock_q, w) - 1) :
                  loads(ssock_q[j].data) # None]_vars

\* C16, amended: each Source.send is answered by exactly one pending plain
\* request, so two sends are answered by two requests; which of the waiting
\* requests that is, is the socket's choice.
C16_OneRequestPerSend ==
    [][(spc = "send" /\ spc' = "idle") =>
         \E w \in Workers : AnswersOnly(w)]_vars

\* with two workers registered, two Source.send have returned and the two
\* tasks are on their way to the two workers
C16_Witness ==
    /\ source.nworkers = 2
    /\ hist.sent[Obj("str", 1)] = 2
    /\ \E v, w \in Workers :
          /\ v # w
          /\ wpc[v] = "next" /\ ssock_r[v] = dumps(Obj("str", 1))
          /\ wpc[w] = "next" /\ ssock_r[w] = dumps(Obj("str", 1))

\* the Source's count includes w: it has processed w's join and not its exit
SourceCounts(w) == w \in hist.sjoined \ hist.sexited

\* the Sink's count includes w
SinkCounts(w) == w \in hist.tjoined \ hist.texited

\* the order of the handshakes of w: the join goes to the Sink once the Source
\* has acknowledged w's join, the first request of next() or send() once both
\* have, the exit goes to the Sink once the Source has acknowledged w's exit
HandshakeOrder(w) ==
    /\ (WorkerJoinMessage \in RequestsOf(tsock_q, w) \/ w \in hist.tjoined) =>
          w \in hist.sjoined /\ (wpc[w] = "join_s" => ssock_r[w] = NoMsg)
    /\ (wpc[w] \in {"ready", "next", "send", "stopped"}
          \/ None \in RequestsOf(ssock_q, w)) =>
          w \in hist.sjoined /\ w \in hist.tjoined
    /\ (WorkerExitedMessage \in RequestsOf(tsock_q, w) \/ w \in hist.texited) =>
          w \in hist.sexited /\ (wpc[w] = "exit_s" => ssock_r[w] = NoMsg)

\* C17 as stated: the handshakes are ordered, and the Source's count includes
\* a worker whenever the Sink's count includes it or the worker is about to
\* join or to exit the Sink.
C17_SourceCoversSink ==
    \A w \in Workers :
        /\ HandshakeOrder(w)
        /\ (SinkCounts(w) \/ wpc[w] \in {"join_t", "exit_t"}) => SourceCounts(w)

\* C17, amended: the handshakes are ordered; the Source's count includes a
\* worker that is about to join the Sink, and one the Sink's count includes,
\* as long as the worker's close() has not begun; once the Source has
\* acknowledged the exit, its count leaves the worker out while the Sink's
\* still includes it.
C17_HandshakeOrder ==
    \A w \in Workers :
        /\ HandshakeOrder(w)
        /\ ((SinkCounts(w) \/ wpc[w] = "join_t") /\ ~worker[w].closed) =>
              SourceCounts(w)
        /\ wpc[w] = "exit_t" => ~SourceCounts(w)
        /\ (wpc[w] = "exit_t" /\ tsock_r[w] = NoMsg) => SinkCounts(w)

\* a worker has joined, taken a task and exited, both handshakes complete
C17_Witness ==
    \E w \in Workers :
        /\ wpc[w] = "exited"
        /\ w \in hist.sexited
        /\ w \in hist.texited
        /\ hist.got[Obj("str", 1)] > 0

\* C18: Sink.next replies None to every message it receives and ends in no
\* error; WorkerJoin, WorkerExited and SourceExited change the count or the
\* source_closed flag only and are not yielded; any other message is yielded
\* as it was received and changes neither.
C18_SinkAcksEverything ==
    [][Len(tsock_q') < Len(tsock_q) =>
         LET m == Head(tsock_q)
             msg == loads(m.data)
         IN  /\ tpc = "next"
             /\ tsock_r' = [tsock_r EXCEPT ![m.from] = dumps(None)]
             /\ sink'.closed = sink.closed
             /\ IF msg = WorkerJoinMessage
                THEN /\ sink'.nworkers = sink.nworkers + 1
                     /\ sink'.source_closed = sink.source_closed
                     /\ tpc' = "next" /\ hist'.yielded = hist.yielded
                ELSE IF msg = WorkerExitedMessage
                THEN /\ sink'.nworkers = sink.nworkers - 1
                     /\ sink'.source_closed = sink.source_closed
                     /\ tpc' = "next" /\ hist'.yielded = hist.yielded
                ELSE IF msg = SourceExitedMessage
                THEN /\ sink'.nworkers = sink.nworkers
                     /\ sink'.source_closed
                     /\ tpc' = "next" /\ hist'.yielded = hist.yielded
                ELSE /\ sink' = sink
                     /\ tpc' = "idle"
                     /\ hist'.yielded = [hist.yielded EXCEPT ![msg] = @ + 1]]_vars

\* the Sink has counted a join and an exit, seen SourceExited and yielded a
\* result
C18_Witness ==
    /\ hist.tcount.join > 0
    /\ hist.tcount.exit > 0
    /\ sink.source_closed
    /\ hist.yielded[Obj("str", 1)] > 0

\* C19: under fair scheduling, once the producer has called Source.close(),
\* every worker whose constructor has sent WorkerJoin to the Source, whenever
\* that was, completes its join, is told the end by next() and completes
\* close().
C19_EveryWorkerTerminates ==
    \A w \in Workers :
        (source.closed /\ wpc[w] = "join_s") ~> (wpc[w] = "exited")

\* C20: the REP sockets of the Source and of the Sink alternate: a request
\* that was received is replied to before a receive is attempted again, also
\* when Source.send has raised Error and Source.close() follows.
C20_Alternation ==
    [][/\ source.unanswered =>
             /\ Len(ssock_q') >= Len(ssock_q)
             /\ spc' # "fault"
       /\ Len(tsock_q') < Len(tsock_q) =>
             tsock_r'[Head(tsock_q).from] # NoMsg]_vars

====
